---- MODULE Spec2Model ----
(***************************************************************************)
(* Model of the leave-time route handler (src/src/app/api/leave-time/      *)
(* route.ts): the buffer policy, the three Distance Matrix adapters, the   *)
(* driving / rideshare departure search, the transit and walking /         *)
(* bicycling branches, and the sorted response of POST.                    *)
(*                                                                         *)
(* Instants are integer seconds.  An optional value (undefined / null in   *)
(* the source) is a sequence of length 0 or 1.  A fetch whose promise      *)
(* rejects is the response with status "REJECTED", an answer whose body is *)
(* not JSON (res.json() rejects) the response with status "NOTJSON", an    *)
(* answer whose body is the JSON value null the response with status       *)
(* "NULL": the adapter throws and the exception reaches the catch of POST, *)
(* which answers with the exception's message.                             *)
(***************************************************************************)
EXTENDS Integers, Sequences, FiniteSets, TLC

VARIABLES
    body,       \* the fields read from the request body (route.ts 137-146)
    env,        \* what the outside world answers: key, request, geocoder, time zone, weather,
                \* oracle model
    pc,         \* position of POST: the await it is suspended at, or the branch it is in
    clock,      \* the instant the request arrived, then the last value Date.now() returned (s)
    flight,     \* flightUtc, airportBufferMin, weather, latestArrivalSec (route.ts 161-179)
    search,     \* locals of the running search loop: phase, buf, nowSec, lo, hi, best, i
    recs,       \* the recs array
    response,   \* the JSON response, once pc = "done"
    probes,     \* per mode, the number of Distance Matrix queries issued
    failed,     \* the modes one of whose queries returned null (no route, no data)
    rejected,   \* the modes one of whose fetches rejected (the adapter threw)
    durSec,     \* per mode, the oracle duration (seconds) behind the pushed recommendation
    latestVisited  \* the latest feasible departure the running search has probed, with its duration

vars == <<body, env, pc, clock, flight, search, recs, response, probes, failed, rejected, durSec,
          latestVisited>>

----------------------------------------------------------------------------
(* Optional values: x ?? d, x == null *)

None == <<>>

Some(v) == <<v>>

OrElse(o, d) == IF o = None THEN d ELSE o[1]

Max(a, b) == IF a >= b THEN a ELSE b

Includes(list, m) == \E k \in 1..Len(list) : list[k] = m

Modes == {"driving", "rideshare", "transit", "walking", "bicycling"}

AllModes == <<"driving", "rideshare", "transit", "walking", "bicycling">>

----------------------------------------------------------------------------
(* Bounds of the model *)

\* the instant Date.now() returns when the request arrives
Epoch0 == 100000

\* the most seconds Date.now() advances between two reads of it
MaxElapsed == 1

\* the widest window of the constant-oracle search scenarios is WindowStep * WindowCount
WindowStep == 13

WindowCount == 150

\* the search window of the wide scenarios, in seconds
WideWindow == 40000

----------------------------------------------------------------------------
(* Program constants *)

SearchStepSec == 60

ProbeBudget == 8

----------------------------------------------------------------------------
(* Buffer policy *)

\* the buffer without its floor of 30 minutes
computeAirportBufferMinutesNoFloor(options) ==
    LET base == IF options.flightType = "international" THEN 180 ELSE 120
        security == IF options.flightType = "international" THEN 60 ELSE 45
        precheckDelta == IF options.hasTsaPre THEN -20 ELSE 0
        bagDrop == IF options.hasBags THEN 20 ELSE 0
        extra == OrElse(options.extra, 0)
    IN  base + security + precheckDelta + bagDrop + extra

computeAirportBufferMinutes(options) ==
    LET base == IF options.flightType = "international" THEN 180 ELSE 120
        security == IF options.flightType = "international" THEN 60 ELSE 45
        precheckDelta == IF options.hasTsaPre THEN -20 ELSE 0
        bagDrop == IF options.hasBags THEN 20 ELSE 0
        extra == OrElse(options.extra, 0)
    IN  Max(base + security + precheckDelta + bagDrop + extra, 30)

\* the access buffer without its clamp at 0
pickupOrParkingBufferMinutesNoClamp(mode, rideSharePickupBufferMin, parkingBufferMin) ==
    IF mode = "rideshare" THEN OrElse(rideSharePickupBufferMin, 8)
    ELSE IF mode = "driving" THEN OrElse(parkingBufferMin, 12)
    ELSE 0

pickupOrParkingBufferMinutes(mode, rideSharePickupBufferMin, parkingBufferMin) ==
    IF mode = "rideshare" THEN Max(OrElse(rideSharePickupBufferMin, 8), 0)
    ELSE IF mode = "driving" THEN Max(OrElse(parkingBufferMin, 12), 0)
    ELSE 0

\* the wind flag setting the minutes instead of adding to them
assessWeatherBufferNotAdditive(res) ==
    IF ~res.ok THEN [addedBufferMin |-> 0, reason |-> <<"weather fetch failed">>]
    ELSE IF res.sample = None THEN [addedBufferMin |-> 0, reason |-> <<>>]
    ELSE LET s == res.sample[1]
             wet == OrElse(s.precipitation_probability, 0) >= 60
                    \/ OrElse(s.precipitation, 0) >= 1
             windy == OrElse(s.windgusts_10m, 0) >= 40
         IN  [addedBufferMin |-> IF windy THEN 10 ELSE IF wet THEN 10 ELSE 0,
              reason |-> (IF wet THEN <<"precipitation expected">> ELSE <<>>)
                         \o (IF windy THEN <<"high wind gusts">> ELSE <<>>)]

\* res: [ok, sample]; sample is None when isoHour is not among hourly.time,
\* else Some([precipProb, precip, windGust]) with the ?? 0 defaults applied by the caller
assessWeatherBuffer(res) ==
    IF ~res.ok THEN [addedBufferMin |-> 0, reason |-> <<"weather fetch failed">>]
    ELSE IF res.sample = None THEN [addedBufferMin |-> 0, reason |-> <<>>]
    ELSE LET s == res.sample[1]
             precipProb == OrElse(s.precipitation_probability, 0)
             precip == OrElse(s.precipitation, 0)
             windGust == OrElse(s.windgusts_10m, 0)
             wet == precipProb >= 60 \/ precip >= 1
             windy == windGust >= 40
         IN  [addedBufferMin |-> (IF wet THEN 10 ELSE 0) + (IF windy THEN 10 ELSE 0),
              reason |-> (IF wet THEN <<"precipitation expected">> ELSE <<>>)
                         \o (IF windy THEN <<"high wind gusts">> ELSE <<>>)]

----------------------------------------------------------------------------
(* Distance Matrix responses and the three adapters *)

\* data.rows?.[0]?.elements?.[0] is the field el
Element(status, duration, traffic, dep, arr) ==
    [status |-> status, duration |-> duration, duration_in_traffic |-> traffic,
     departure_time |-> dep, arrival_time |-> arr]

\* await fetch(url) rejects
Rejected == [status |-> "REJECTED", el |-> None]

\* await res.json() rejects: the body of the answer is not JSON
NotJson == [status |-> "NOTJSON", el |-> None]

\* the message of the TypeError of a fetch that rejects
FetchFailed == "fetch failed"

\* the message of the SyntaxError of res.json() on the body <html>
NotJsonMessage == "Unexpected token '<', \"<html>\" is not valid JSON"

\* the adapter reads data.status of the body null
NullBody == [status |-> "NULL", el |-> None]

\* the message of the TypeError of data.status on the body null
NullStatusMessage == "Cannot read properties of null (reading 'status')"

\* the message of the TypeError of data.hourly on the body null
NullHourlyMessage == "Cannot read properties of null (reading 'hourly')"

\* the message of the TypeError of data.results.map on a geocode answer OK without results
NoResultsMessage == "Cannot read properties of undefined (reading 'map')"

\* what a service call can come to: a JSON object, a rejecting fetch, a body that is not
\* JSON, the body null
FetchOutcomes == {"json", "rejected", "notJson", "null"}

\* a geocode call besides: status OK and no results field
GeocodeOutcomes == FetchOutcomes \cup {"okNoResults"}

\* the message of the exception a failing geocode or timeZone call throws
ThrownBy(outcome) ==
    IF outcome = "rejected" THEN FetchFailed
    ELSE IF outcome = "notJson" THEN NotJsonMessage
    ELSE IF outcome = "null" THEN NullStatusMessage
    ELSE NoResultsMessage

\* a Distance Matrix adapter throws
Throws(data) == data.status \in {"REJECTED", "NOTJSON", "NULL"}

Thrown(data) ==
    IF data.status = "REJECTED" THEN FetchFailed
    ELSE IF data.status = "NOTJSON" THEN NotJsonMessage
    ELSE NullStatusMessage

DenyResponse == [status |-> "REQUEST_DENIED", el |-> None]

NoRows == [status |-> "OK", el |-> None]

NoRoute == [status |-> "OK", el |-> Some(Element("ZERO_RESULTS", None, None, None, None))]

OkElement(duration, traffic, dep, arr) ==
    [status |-> "OK", el |-> Some(Element("OK", duration, traffic, dep, arr))]

drivingDurationInTraffic(data) ==
    IF data.status # "OK" THEN None
    ELSE IF data.el = None THEN None
    ELSE IF data.el[1].status # "OK" THEN None
    ELSE IF data.el[1].duration_in_traffic # None THEN data.el[1].duration_in_traffic
    ELSE data.el[1].duration

transitPlanForArrival(data) ==
    IF data.status # "OK" THEN None
    ELSE IF data.el = None THEN None
    ELSE IF data.el[1].status # "OK" THEN None
    ELSE LET duration == data.el[1].duration
             dep == data.el[1].departure_time
             arr == data.el[1].arrival_time
         IN  IF duration = None \/ dep = None \/ arr = None THEN None
             ELSE Some([durationSec |-> duration[1], departureTimeSec |-> dep[1],
                        arrivalTimeSec |-> arr[1]])

simpleDuration(data) ==
    IF data.status # "OK" THEN None
    ELSE IF data.el = None THEN None
    ELSE IF data.el[1].status # "OK" THEN None
    ELSE data.el[1].duration

\* Math.round(x / 60) of a whole number of seconds
RoundMin(sec) == (sec + 30) \div 60

----------------------------------------------------------------------------
(* The departure search of the driving and rideshare branches *)

Idle == [phase |-> "idle", buf |-> 0, nowSec |-> 0, lo |-> 0, hi |-> 0, best |-> None, i |-> 0]

\* const buf = ...; const nowSec = ...; let lo = nowSec; let hi = ...; let best = null; i = 0
SearchInit(buf, nowSec, latestArrivalSec) ==
    [phase |-> "loop", buf |-> buf, nowSec |-> nowSec, lo |-> nowSec,
     hi |-> latestArrivalSec - buf * 60, best |-> None, i |-> 0]

\* the loop guard without its probe budget
LoopGuardNoBudget(s) == s.lo <= s.hi

\* i < 8 && lo <= hi
LoopGuard(s) == s.i < ProbeBudget /\ s.lo <= s.hi

\* Math.floor((lo + hi) / 2)
Mid(s) == (s.lo + s.hi) \div 2

\* the loop body with the access buffer left out of the arrival test
SearchStepNoBuf(s, dur, latestArrivalSec) ==
    LET mid == Mid(s)
        arrival == mid + dur
    IN  IF arrival <= latestArrivalSec
        THEN [s EXCEPT !.best = Some([leave |-> mid, dur |-> dur]),
                       !.lo = mid + SearchStepSec, !.i = @ + 1]
        ELSE [s EXCEPT !.hi = mid - SearchStepSec, !.i = @ + 1]

\* the loop body keeping the first feasible probe instead of the latest
SearchStepKeepFirst(s, dur, latestArrivalSec) ==
    LET mid == Mid(s)
        arrival == mid + dur
    IN  IF arrival <= latestArrivalSec - s.buf * 60
        THEN [s EXCEPT !.best = IF s.best = None THEN Some([leave |-> mid, dur |-> dur])
                                 ELSE s.best,
                       !.lo = mid + SearchStepSec, !.i = @ + 1]
        ELSE [s EXCEPT !.hi = mid - SearchStepSec, !.i = @ + 1]

\* the loop body as a minimise-duration search: a feasible probe replaces the kept one only
\* when its duration is shorter
SearchStepMinDuration(s, dur, latestArrivalSec) ==
    LET mid == Mid(s)
        arrival == mid + dur
    IN  IF arrival <= latestArrivalSec - s.buf * 60
        THEN [s EXCEPT !.best = IF s.best = None \/ dur < s.best[1].dur
                                 THEN Some([leave |-> mid, dur |-> dur])
                                 ELSE s.best,
                       !.lo = mid + SearchStepSec, !.i = @ + 1]
        ELSE [s EXCEPT !.hi = mid - SearchStepSec, !.i = @ + 1]

\* the loop body with the two bound updates exchanged
SearchStepSwapped(s, dur, latestArrivalSec) ==
    LET mid == Mid(s)
        arrival == mid + dur
    IN  IF arrival <= latestArrivalSec - s.buf * 60
        THEN [s EXCEPT !.best = Some([leave |-> mid, dur |-> dur]),
                       !.hi = mid - SearchStepSec, !.i = @ + 1]
        ELSE [s EXCEPT !.lo = mid + SearchStepSec, !.i = @ + 1]

\* one pass of the loop body for a probe that returned dur, and the i++ after it
SearchStep(s, dur, latestArrivalSec) ==
    LET mid == Mid(s)
        arrival == mid + dur
    IN  IF arrival <= latestArrivalSec - s.buf * 60
        THEN [s EXCEPT !.best = Some([leave |-> mid, dur |-> dur]),
                       !.lo = mid + SearchStepSec, !.i = @ + 1]
        ELSE [s EXCEPT !.hi = mid - SearchStepSec, !.i = @ + 1]

----------------------------------------------------------------------------
(* What the Distance Matrix service may answer *)

\* travel durations, in seconds, of the unconstrained oracle
Durations == {120, 1530}

\* o is env.oracle: "any" answers anything at every probe, "const" always d,
\* "step" d for a departure before cut and d2 from cut on
OracleDuration(o, t) == IF o.kind = "const" \/ t < o.cut THEN o.d ELSE o.d2

DrivingResponses(o, departureTimeSec) ==
    IF o.kind = "any"
    THEN {Rejected, NotJson, NullBody, DenyResponse, NoRows, NoRoute, OkElement(None, None, None, None)}
         \cup {OkElement(Some(d), None, None, None) : d \in Durations}
         \cup {OkElement(Some(d), Some(t), None, None) : d \in Durations, t \in Durations}
    ELSE {OkElement(None, Some(OracleDuration(o, departureTimeSec)), None, None)}

\* the whole loop against an oracle that answers one duration per departure instant:
\* the locals when the loop is left
RECURSIVE RunSearch(_, _, _)
RunSearch(s, o, latestArrivalSec) ==
    IF ~LoopGuard(s) THEN s
    ELSE LET data == CHOOSE x \in DrivingResponses(o, Mid(s)) : TRUE
             dur == drivingDurationInTraffic(data)
         IN  IF dur = None THEN s
             ELSE RunSearch(SearchStep(s, dur[1], latestArrivalSec), o, latestArrivalSec)

\* a plan arriving at, before or after the requested arrival time
TransitResponses(arrivalTimeSec) ==
    {Rejected, NotJson, NullBody, DenyResponse, NoRoute}
    \cup {OkElement(Some(d), None, None, Some(arrivalTimeSec)) : d \in Durations}
    \cup {OkElement(Some(d), None, Some(arr - d), Some(arr)) :
            d \in Durations, arr \in {arrivalTimeSec, arrivalTimeSec - 300, arrivalTimeSec + 300}}

SimpleResponses ==
    {Rejected, NotJson, NullBody, DenyResponse, NoRoute, OkElement(None, None, None, None)}
    \cup {OkElement(Some(d), None, None, None) : d \in Durations}

----------------------------------------------------------------------------
(* POST *)

\* body.modes ?? ['driving'].  body.modesHasIncludes is FALSE for a modes value that is no
\* list and has no includes method (a number, a boolean, an object); body.modes is then
\* Some(<<>>).  A string answers includes by substring, as the list of the mode names it
\* contains does.
modes == OrElse(body.modes, <<"driving">>)

\* the message of the TypeError of modes.includes(...) on such a value
NoIncludesMessage == "modes.includes is not a function"

NoResponse ==
    [ok |-> FALSE, error |-> "", recommendations |-> <<>>, requiredAirportArrivalUtc |-> 0,
     airportBufferMin |-> 0, weatherBufferMin |-> 0, weatherReasons |-> <<>>]

\* catch (e) { return NextResponse.json({ ok: false, error: message }, { status: 400 }) }
Catch(message) ==
    /\ pc' = "done"
    /\ response' = [NoResponse EXCEPT !.error = message]
    /\ search' = Idle

\* the comparator reversed: a.leaveTimeUtc - b.leaveTimeUtc
RECURSIVE SortRecsAscending(_)
SortRecsAscending(rs) ==
    IF Len(rs) <= 1 THEN rs
    ELSE LET sorted == SortRecsAscending(SubSeq(rs, 1, Len(rs) - 1))
             r == rs[Len(rs)]
             before == SelectSeq(sorted, LAMBDA x : x.leaveTimeUtc <= r.leaveTimeUtc)
             after == SelectSeq(sorted, LAMBDA x : x.leaveTimeUtc > r.leaveTimeUtc)
         IN  before \o <<r>> \o after

\* recs.sort((a, b) => b.leaveTimeUtc - a.leaveTimeUtc): stable, latest departure first
RECURSIVE SortRecs(_)
SortRecs(rs) ==
    IF Len(rs) <= 1 THEN rs
    ELSE LET sorted == SortRecs(SubSeq(rs, 1, Len(rs) - 1))
             r == rs[Len(rs)]
             before == SelectSeq(sorted, LAMBDA x : x.leaveTimeUtc >= r.leaveTimeUtc)
             after == SelectSeq(sorted, LAMBDA x : x.leaveTimeUtc < r.leaveTimeUtc)
         IN  before \o <<r>> \o after

\* the message of req.json() rejecting on an empty body
BodyNotJsonMessage == "Unexpected end of JSON input"

\* the message of body.originText on the body null
BodyNullMessage == "Cannot read properties of null (reading 'originText')"

\* the geocode calls of Promise.all that throw
GeocodeThrown == {env.originFetch, env.airportFetch} \ {"json"}

\* assessWeatherBuffer throws: the fetch rejects, or the answer is ok and its body is not
\* JSON or is null
WeatherThrows ==
    \/ env.weather.fetch = "rejected"
    \/ env.weather.ok /\ env.weather.fetch \in {"notJson", "null"}

\* the message of the exception assessWeatherBuffer throws
WeatherThrown ==
    IF env.weather.fetch = "null" THEN NullHourlyMessage ELSE ThrownBy(env.weather.fetch)

\* lines 131-134: the key, then the handler waits for req.json()
Enter ==
    /\ pc = "start"
    /\ UNCHANGED <<body, env, clock, flight, recs, probes, failed, rejected, durSec,
                   latestVisited>>
    /\ IF ~env.apiKey THEN Catch("Missing GOOGLE_MAPS_API_KEY")
       ELSE pc' = "body" /\ UNCHANGED <<search, response>>

\* lines 134-148: req.json() settles, the fields are read, the two geocode calls are issued
ParseBody ==
    /\ pc = "body"
    /\ UNCHANGED <<body, env, clock, flight, recs, probes, failed, rejected, durSec,
                   latestVisited>>
    /\ IF env.request = "notJson" THEN Catch(BodyNotJsonMessage)
       ELSE IF env.request = "null" THEN Catch(BodyNullMessage)
       ELSE pc' = "geocode" /\ UNCHANGED <<search, response>>

\* lines 148-158: Promise.all settles, the matches are checked, Date.now() is read and the
\* time zone call is issued
Geocode ==
    /\ pc = "geocode"
    /\ UNCHANGED <<body, env, flight, recs, probes, failed, rejected, durSec, latestVisited>>
    /\ IF GeocodeThrown # {}
       THEN /\ \E outcome \in GeocodeThrown : Catch(ThrownBy(outcome))
            /\ UNCHANGED clock
       ELSE IF ~env.originMatches THEN Catch("Could not resolve origin") /\ UNCHANGED clock
       ELSE IF ~env.airportMatches THEN Catch("Could not resolve airport") /\ UNCHANGED clock
       ELSE \E elapsed \in 0..MaxElapsed :
                /\ clock' = clock + elapsed
                /\ pc' = "timezone"
                /\ UNCHANGED <<search, response>>

\* lines 158-172: timeZone settles; the flight instant and the procedural buffer are
\* computed and the weather call is issued
TimeZone ==
    /\ pc = "timezone"
    /\ UNCHANGED <<body, env, clock, recs, probes, failed, rejected, durSec, latestVisited>>
    /\ IF env.tzFetch # "json" THEN Catch(ThrownBy(env.tzFetch)) /\ UNCHANGED flight
       ELSE IF ~env.tzId
            THEN Catch("Could not determine airport time zone") /\ UNCHANGED flight
       ELSE IF body.flightDateTimeLocal = None
            THEN Catch("Invalid flight date/time") /\ UNCHANGED flight
       ELSE /\ flight' = [flight EXCEPT
                             !.flightUtc = body.flightDateTimeLocal[1],
                             !.airportBufferMin =
                                 computeAirportBufferMinutes(
                                     [flightType |-> body.flightType,
                                      hasTsaPre |-> body.hasTsaPreCheck,
                                      hasBags |-> body.hasCheckedBags,
                                      extra |-> body.extraBufferMin])]
            /\ pc' = "weather"
            /\ UNCHANGED <<search, response>>

\* lines 172-179: assessWeatherBuffer settles; the required arrival instant is computed
Weather ==
    /\ pc = "weather"
    /\ UNCHANGED <<body, env, clock, recs, probes, failed, rejected, durSec, latestVisited>>
    /\ IF WeatherThrows THEN Catch(WeatherThrown) /\ UNCHANGED flight
       ELSE LET weather == assessWeatherBuffer(env.weather)
            IN  /\ flight' = [flight EXCEPT
                                 !.weather = weather,
                                 !.latestArrivalSec =
                                     flight.flightUtc
                                     - (flight.airportBufferMin + weather.addedBufferMin) * 60]
                /\ pc' = "driving"
                /\ UNCHANGED <<search, response>>

Rec(mode, leaveTimeUtc, dur, accessBuf, notes) ==
    [mode |-> mode, leaveTimeUtc |-> leaveTimeUtc, travelDurationMin |-> RoundMin(dur),
     buffersAppliedMin |-> flight.airportBufferMin + flight.weather.addedBufferMin + accessBuf,
     notes |-> notes]

AccessBuffer(m) ==
    IF m = "driving" THEN pickupOrParkingBufferMinutes("driving", None, body.parkingBufferMin)
    ELSE pickupOrParkingBufferMinutes("rideshare", body.rideSharePickupBufferMin, None)

\* the probe at Mid(s) answered dur: mid + dur <= latestArrivalSec - buf * 60 (route.ts 195)
FeasibleProbe(s, dur, latestArrivalSec) == Mid(s) + dur <= latestArrivalSec - s.buf * 60

\* the record of the search's probes: the feasible departure furthest in time, with the
\* duration the oracle answered for it; a probe without a duration leaves it alone
Visit(seen, s, dur, latestArrivalSec) ==
    IF dur = None \/ ~FeasibleProbe(s, dur[1], latestArrivalSec) THEN seen
    ELSE IF seen = None \/ Mid(s) > seen[1].leave
         THEN Some([leave |-> Mid(s), dur |-> dur[1]])
         ELSE seen

\* if (modes.includes(m)) { const buf = ...; const nowSec = Math.floor(Date.now() / 1000); ... }
SearchStart(m, next) ==
    /\ pc = m
    /\ search.phase = "idle"
    /\ UNCHANGED <<body, env, flight, recs, probes, failed, rejected, durSec>>
    /\ latestVisited' = None
    /\ IF ~body.modesHasIncludes /\ body.modes # None
       THEN Catch(NoIncludesMessage) /\ UNCHANGED clock
       ELSE IF Includes(modes, m)
       THEN \E elapsed \in 0..MaxElapsed :
                /\ clock' = clock + elapsed
                /\ search' = SearchInit(AccessBuffer(m), clock + elapsed, flight.latestArrivalSec)
                /\ pc' = pc
                /\ UNCHANGED response
       ELSE pc' = next /\ UNCHANGED <<clock, search, response>>

\* one iteration of for (let i = 0; i < 8 && lo <= hi; i++) { ... }
SearchProbe(m) ==
    /\ pc = m
    /\ search.phase = "loop"
    /\ LoopGuard(search)
    /\ UNCHANGED <<body, env, clock, flight, recs, durSec>>
    /\ probes' = [probes EXCEPT ![m] = @ + 1]
    /\ \E data \in DrivingResponses(env.oracle, Mid(search)) :
          /\ latestVisited' = Visit(latestVisited, search, drivingDurationInTraffic(data),
                                    flight.latestArrivalSec)
          /\ IF Throws(data)
             THEN Catch(Thrown(data)) /\ rejected' = rejected \cup {m} /\ UNCHANGED failed
             ELSE LET dur == drivingDurationInTraffic(data)
                  IN  IF dur = None
                      THEN /\ search' = [search EXCEPT !.phase = "break"]
                           /\ failed' = failed \cup {m}
                           /\ UNCHANGED <<pc, response, rejected>>
                      ELSE /\ search' = SearchStep(search, dur[1], flight.latestArrivalSec)
                           /\ UNCHANGED <<pc, response, failed, rejected>>

\* the loop is over: if (best) { recs.push({...}) }
SearchEmit(m, next, label) ==
    /\ pc = m
    /\ \/ search.phase = "loop" /\ ~LoopGuard(search)
       \/ search.phase = "break"
    /\ UNCHANGED <<body, env, clock, flight, response, probes, failed, rejected>>
    /\ latestVisited' = None
    /\ IF search.best # None
       THEN /\ recs' = Append(recs, Rec(m, search.best[1].leave, search.best[1].dur, search.buf,
                                        Some([label |-> label, min |-> search.buf])))
            /\ durSec' = [durSec EXCEPT ![m] = Some(search.best[1].dur)]
       ELSE UNCHANGED <<recs, durSec>>
    /\ search' = Idle
    /\ pc' = next

DrivingStart == SearchStart("driving", "rideshare")

DrivingProbe == SearchProbe("driving")

DrivingEmit == SearchEmit("driving", "rideshare", "parking")

RideshareStart == SearchStart("rideshare", "transit")

RideshareProbe == SearchProbe("rideshare")

RideshareEmit == SearchEmit("rideshare", "transit", "pickup")

Transit ==
    /\ pc = "transit"
    /\ UNCHANGED <<body, env, clock, flight, latestVisited>>
    /\ IF Includes(modes, "transit")
       THEN /\ probes' = [probes EXCEPT !["transit"] = @ + 1]
            /\ \E data \in TransitResponses(flight.latestArrivalSec) :
                  IF Throws(data)
                  THEN /\ Catch(Thrown(data))
                       /\ rejected' = rejected \cup {"transit"}
                       /\ UNCHANGED <<recs, durSec, failed>>
                  ELSE LET plan == transitPlanForArrival(data)
                       IN  /\ pc' = "walking"
                           /\ UNCHANGED <<search, response, rejected>>
                           /\ IF plan # None
                              THEN /\ recs' = Append(recs, Rec("transit", plan[1].departureTimeSec,
                                                               plan[1].durationSec, 0, None))
                                   /\ durSec' = [durSec EXCEPT !["transit"] =
                                                     Some(plan[1].durationSec)]
                                   /\ UNCHANGED failed
                              ELSE /\ failed' = failed \cup {"transit"}
                                   /\ UNCHANGED <<recs, durSec>>
       ELSE pc' = "walking"
            /\ UNCHANGED <<search, recs, response, probes, failed, rejected, durSec>>

\* the pass computing the departure from the duration rounded to minutes
SimplePassRounded(m, data) ==
    LET dur == simpleDuration(data)
        leaveSec == flight.latestArrivalSec - RoundMin(dur[1]) * 60
    IN  IF dur # None THEN Append(recs, Rec(m, leaveSec, dur[1], 0, None)) ELSE recs

\* one pass of for (const m of ['walking', 'bicycling']): the recs after it
SimplePass(m, data) ==
    LET dur == simpleDuration(data)
        leaveSec == flight.latestArrivalSec - dur[1]
    IN  IF dur # None THEN Append(recs, Rec(m, leaveSec, dur[1], 0, None)) ELSE recs

Walking ==
    /\ pc = "walking"
    /\ UNCHANGED <<body, env, clock, flight, latestVisited>>
    /\ IF Includes(modes, "walking")
       THEN /\ probes' = [probes EXCEPT !["walking"] = @ + 1]
            /\ \E data \in SimpleResponses :
                  IF Throws(data)
                  THEN /\ Catch(Thrown(data))
                       /\ rejected' = rejected \cup {"walking"}
                       /\ UNCHANGED <<recs, durSec, failed>>
                  ELSE /\ recs' = SimplePass("walking", data)
                       /\ durSec' = [durSec EXCEPT !["walking"] = simpleDuration(data)]
                       /\ failed' = IF simpleDuration(data) = None
                                    THEN failed \cup {"walking"} ELSE failed
                       /\ pc' = "bicycling"
                       /\ UNCHANGED <<search, response, rejected>>
       ELSE pc' = "bicycling"
            /\ UNCHANGED <<search, recs, response, probes, failed, rejected, durSec>>

\* return NextResponse.json({ ok: true, ..., recommendations: recs }) after recs.sort(...)
Respond(rs) ==
    /\ recs' = SortRecs(rs)
    /\ response' = [ok |-> TRUE, error |-> "", recommendations |-> SortRecs(rs),
                    requiredAirportArrivalUtc |-> flight.latestArrivalSec,
                    airportBufferMin |-> flight.airportBufferMin,
                    weatherBufferMin |-> flight.weather.addedBufferMin,
                    weatherReasons |-> flight.weather.reason]
    /\ pc' = "done"
    /\ search' = Idle

\* the last pass of the walking / bicycling loop, then the sort and the response
Bicycling ==
    /\ pc = "bicycling"
    /\ UNCHANGED <<body, env, clock, flight, latestVisited>>
    /\ IF Includes(modes, "bicycling")
       THEN /\ probes' = [probes EXCEPT !["bicycling"] = @ + 1]
            /\ \E data \in SimpleResponses :
                  IF Throws(data)
                  THEN /\ Catch(Thrown(data))
                       /\ rejected' = rejected \cup {"bicycling"}
                       /\ UNCHANGED <<recs, durSec, failed>>
                  ELSE /\ Respond(SimplePass("bicycling", data))
                       /\ durSec' = [durSec EXCEPT !["bicycling"] = simpleDuration(data)]
                       /\ failed' = IF simpleDuration(data) = None
                                    THEN failed \cup {"bicycling"} ELSE failed
                       /\ UNCHANGED rejected
       ELSE Respond(recs) /\ UNCHANGED <<probes, failed, rejected, durSec>>

----------------------------------------------------------------------------
(* Requests and environments the handler is run on *)

AnyOracle == [kind |-> "any", d |-> 0, cut |-> 0, d2 |-> 0]

ConstOracle(d) == [kind |-> "const", d |-> d, cut |-> 0, d2 |-> 0]

StepOracle(d, cut, d2) == [kind |-> "step", d |-> d, cut |-> cut, d2 |-> d2]

Sample(precipProb, precip, windGust) ==
    [fetch |-> "json", ok |-> TRUE,
     sample |-> Some([precipitation_probability |-> precipProb, precipitation |-> precip,
                      windgusts_10m |-> windGust])]

Calm == Sample(Some(10), Some(0), Some(5))

WeatherResponses ==
    {Calm, Sample(Some(60), Some(0), Some(39)), Sample(None, Some(1), None),
     Sample(Some(59), None, Some(40)), Sample(Some(80), Some(3), Some(55)),
     [fetch |-> "json", ok |-> FALSE, sample |-> None],
     [fetch |-> "json", ok |-> TRUE, sample |-> None],
     [fetch |-> "rejected", ok |-> FALSE, sample |-> None],
     [fetch |-> "notJson", ok |-> TRUE, sample |-> None],
     [fetch |-> "notJson", ok |-> FALSE, sample |-> None],
     [fetch |-> "null", ok |-> TRUE, sample |-> None],
     [fetch |-> "null", ok |-> FALSE, sample |-> None]}

\* the request the form sends with its defaults cleared: domestic, no flags, no minutes
Body(flightSec, ms) ==
    [flightDateTimeLocal |-> flightSec, flightType |-> "domestic", hasTsaPreCheck |-> FALSE,
     hasCheckedBags |-> FALSE, modes |-> ms, modesHasIncludes |-> TRUE,
     rideSharePickupBufferMin |-> None,
     parkingBufferMin |-> None, extraBufferMin |-> None]

Env(oracle) ==
    [apiKey |-> TRUE, request |-> "object", originFetch |-> "json", airportFetch |-> "json",
     originMatches |-> TRUE, airportMatches |-> TRUE, tzFetch |-> "json", tzId |-> TRUE,
     weather |-> Calm, oracle |-> oracle]

\* the flight instant that leaves a driving search window of w seconds under Body's defaults
FlightAfter(w) == Some(Epoch0 + (120 + 45 + 12) * 60 + w)

ModeLists ==
    {SelectSeq(AllModes, LAMBDA m : m \in S) : S \in SUBSET Modes}
    \cup {<<"walking", "driving">>, <<"helicopter">>, <<"helicopter", "bicycling">>}

NarrowWindows == {-200, 100, 300}

\* every mode list, the oracle free to answer anything
ModeScenarios ==
    {[body |-> Body(FlightAfter(w), ms), env |-> Env(AnyOracle)] :
        w \in NarrowWindows, ms \in {Some(l) : l \in ModeLists} \cup {None}}

ConstDurations == {30, 61, 3600}

ConstWindows == {WindowStep * k : k \in 0..WindowCount} \cup {WideWindow}

\* one search against an oracle that answers the same duration at every probe
ConstScenarios ==
    {[body |-> Body(FlightAfter(w), Some(<<m>>)), env |-> Env(ConstOracle(d))] :
        w \in ConstWindows, d \in ConstDurations, m \in {"driving", "rideshare"}}

\* one search against an oracle whose duration changes once with the departure instant
StepScenarios ==
    {[body |-> Body(FlightAfter(w), Some(<<"driving">>)),
      env |-> Env(StepOracle(d, Epoch0 + cut, d2))] :
        w \in {100, 300, 1000}, cut \in {40, 160}, d \in {30, 3600}, d2 \in {30, 3600}}

\* a search wide enough to use the whole probe budget, the oracle free
WideScenarios ==
    {[body |-> Body(FlightAfter(WideWindow), Some(<<m>>)), env |-> Env(AnyOracle)] :
        m \in {"driving", "rideshare"}}

\* flight categories, flags and configured minutes
BufferScenarios ==
    {[body |-> [Body(FlightAfter(5000), Some(<<"driving", "rideshare", "walking">>)) EXCEPT
                   !.flightType = ft, !.hasTsaPreCheck = pre, !.hasCheckedBags = bags,
                   !.extraBufferMin = extra, !.rideSharePickupBufferMin = pick,
                   !.parkingBufferMin = park],
      env |-> Env(ConstOracle(61))] :
        ft \in {"domestic", "international", "charter", ""}, pre \in BOOLEAN,
        bags \in BOOLEAN, extra \in {None, Some(10), Some(-400)},
        pick \in {None, Some(-5), Some(20)}, park \in {None, Some(-5), Some(20)}}

\* what can go wrong before the first mode is evaluated, and the weather answers
EnvScenarios ==
    LET b == Body(FlightAfter(300), Some(<<"driving", "walking">>))
        e == Env(AnyOracle)
    IN  {[body |-> b, env |-> [e EXCEPT !.apiKey = FALSE]],
         [body |-> b, env |-> [e EXCEPT !.request = "notJson"]],
         [body |-> b, env |-> [e EXCEPT !.request = "null"]],
         [body |-> b, env |-> [e EXCEPT !.tzFetch = "rejected"]],
         [body |-> b, env |-> [e EXCEPT !.tzFetch = "notJson"]],
         [body |-> b, env |-> [e EXCEPT !.tzFetch = "null"]],
         [body |-> [b EXCEPT !.modes = Some(<<>>), !.modesHasIncludes = FALSE], env |-> e],
         [body |-> b, env |-> [e EXCEPT !.originMatches = FALSE]],
         [body |-> b, env |-> [e EXCEPT !.airportMatches = FALSE]],
         [body |-> b, env |-> [e EXCEPT !.tzId = FALSE]],
         [body |-> [b EXCEPT !.flightDateTimeLocal = None], env |-> e],
         [body |-> [b EXCEPT !.flightDateTimeLocal = None, !.flightType = "charter"], env |-> e]}
        \cup {[body |-> b, env |-> [e EXCEPT !.originFetch = o, !.airportFetch = a]] :
                o \in GeocodeOutcomes, a \in GeocodeOutcomes}
        \cup {[body |-> b, env |-> [e EXCEPT !.weather = w]] : w \in WeatherResponses}

Scenarios ==
    ModeScenarios \cup ConstScenarios \cup StepScenarios \cup WideScenarios
    \cup BufferScenarios \cup EnvScenarios

----------------------------------------------------------------------------
(* The state machine *)

Init ==
    /\ \E sc \in Scenarios : body = sc.body /\ env = sc.env
    /\ pc = "start"
    /\ clock = Epoch0
    /\ flight = [flightUtc |-> 0, airportBufferMin |-> 0,
                 weather |-> [addedBufferMin |-> 0, reason |-> <<>>], latestArrivalSec |-> 0]
    /\ search = Idle
    /\ recs = <<>>
    /\ response = NoResponse
    /\ probes = [m \in Modes |-> 0]
    /\ failed = {}
    /\ rejected = {}
    /\ durSec = [m \in Modes |-> None]
    /\ latestVisited = None

Next ==
    \/ Enter
    \/ ParseBody
    \/ Geocode
    \/ TimeZone
    \/ Weather
    \/ DrivingStart
    \/ DrivingProbe
    \/ DrivingEmit
    \/ RideshareStart
    \/ RideshareProbe
    \/ RideshareEmit
    \/ Transit
    \/ Walking
    \/ Bicycling

Spec == Init /\ [][Next]_vars

----------------------------------------------------------------------------
(* Claims *)

HasRec(rs, m) == \E k \in 1..Len(rs) : rs[k].mode = m

\* departure + duration in seconds + the buffer minutes applied, against the flight instant
NotLaterThan(r) ==
    r.leaveTimeUtc + durSec[r.mode][1] + r.buffersAppliedMin * 60 <= flight.flightUtc

\* C1 as stated: every recommendation of every mode, whatever the oracle answers, satisfies
\* departure + duration + buffer * 60 <= flight instant.
C1_NotLaterThanAnyOracle == \A k \in 1..Len(recs) : NotLaterThan(recs[k])

\* the transit plan the oracle returned leaves and travels within the arrival time asked for
TransitPlanOnTime(r) == r.leaveTimeUtc + durSec["transit"][1] <= flight.latestArrivalSec

\* C1 amended: every driving, rideshare, walking and bicycling recommendation satisfies
\* departure + duration + buffer * 60 <= flight instant whatever the oracle answers; a
\* transit recommendation satisfies it when the plan the oracle returned departs and
\* travels within the requested arrival time, which the handler does not check.
C1_NotLaterThan ==
    \A k \in 1..Len(recs) :
        (recs[k].mode # "transit" \/ TransitPlanOnTime(recs[k])) => NotLaterThan(recs[k])

C1_Witness ==
    /\ pc = "done"
    /\ response.ok
    /\ Len(response.recommendations) = 5
    /\ \A k \in 1..5 : response.recommendations[k].mode = "transit"
                          => TransitPlanOnTime(response.recommendations[k])

\* the state in which a search loop has just been left by its guard
LoopLeft == search.phase = "loop" /\ ~LoopGuard(search)

\* the latest departure that meets the deadline when every probe answers env.oracle.d
LatestFeasible == flight.latestArrivalSec - search.buf * 60 - env.oracle.d

\* C2 as stated: against a constant oracle, whenever a feasible departure exists the search
\* returns one, and no feasible departure more than 60 seconds later exists.
C2_WithinOneStep ==
    (LoopLeft /\ env.oracle.kind = "const" /\ search.nowSec <= LatestFeasible) =>
        /\ search.best # None
        /\ LatestFeasible - search.best[1].leave <= SearchStepSec

\* C2 amended: against a constant oracle a returned departure is never earlier than the
\* earliest instant nor later than T - D - buffer; when the loop ends because its interval
\* is exhausted (lo > hi), a returned departure is less than two search steps (120 s)
\* before T - D - buffer, and nothing is returned only if T - D - buffer is less than one
\* step (60 s) after the earliest instant.  When the eight probes run out first, the
\* distance is not bounded by the step.
C2_WithinTwoStepsWhenExhausted ==
    (LoopLeft /\ env.oracle.kind = "const") =>
        /\ search.best # None =>
              /\ search.nowSec <= search.best[1].leave
              /\ search.best[1].leave <= LatestFeasible
        /\ (search.best # None /\ search.lo > search.hi) =>
              LatestFeasible - search.best[1].leave < 2 * SearchStepSec
        /\ (search.best = None /\ search.lo > search.hi) =>
              LatestFeasible - search.nowSec < SearchStepSec

\* the interval exhausted, and the departure returned more than one step early
C2_Witness ==
    /\ LoopLeft
    /\ env.oracle.kind = "const"
    /\ search.lo > search.hi
    /\ search.best # None
    /\ LatestFeasible - search.best[1].leave > SearchStepSec

\* how far the interval is widened, in seconds
Widenings == {1, 60, 500}

\* the result of the search started dl seconds earlier, against the same oracle
EarlierStart(dl) ==
    RunSearch(SearchInit(search.buf, search.nowSec - dl, flight.latestArrivalSec),
              env.oracle, flight.latestArrivalSec).best

\* the result of the search for a deadline dl seconds later, against the same oracle
LaterDeadline(dl) ==
    RunSearch(SearchInit(search.buf, search.nowSec, flight.latestArrivalSec + dl),
              env.oracle, flight.latestArrivalSec + dl).best

NotEarlier(wide, narrow) == wide # None /\ wide[1].leave >= narrow[1].leave

\* C3 as stated: against the same oracle, an earlier start or a later deadline never
\* returns an earlier departure and never loses a feasible result.
C3_Monotonic ==
    (LoopLeft /\ env.oracle.kind # "any" /\ search.best # None) =>
        \A dl \in Widenings :
            /\ NotEarlier(EarlierStart(dl), search.best)
            /\ NotEarlier(LaterDeadline(dl), search.best)

\* C3 amended: against an oracle whose duration does not depend on the departure instant,
\* an earlier start or a later deadline never loses a feasible result, and a later
\* deadline never returns an earlier departure.  An earlier start can return an earlier
\* departure, and against a time-varying oracle a widening can lose the result.
C3_MonotonicConstOracle ==
    (LoopLeft /\ env.oracle.kind = "const" /\ search.best # None) =>
        \A dl \in Widenings :
            /\ EarlierStart(dl) # None
            /\ NotEarlier(LaterDeadline(dl), search.best)

\* a feasible search whose later-deadline run found a strictly later departure and whose
\* earlier-start run found a strictly earlier one
C3_Witness ==
    /\ LoopLeft
    /\ env.oracle.kind = "const"
    /\ search.best # None
    /\ \E dl \in Widenings :
          /\ EarlierStart(dl) # None
          /\ EarlierStart(dl)[1].leave < search.best[1].leave
          /\ LaterDeadline(dl) # None
          /\ LaterDeadline(dl)[1].leave > search.best[1].leave

\* C4: a search never issues more than 8 Distance Matrix queries, the loop counter is the
\* number of queries issued, and the handler is never stuck before it has responded.
C4_ProbeBudget ==
    /\ \A m \in Modes : probes[m] <= ProbeBudget
    /\ search.phase # "idle" => search.i <= probes[pc] /\ probes[pc] <= search.i + 1
    /\ pc # "done" => ENABLED Next

C4_Witness ==
    /\ pc = "driving"
    /\ search.phase = "loop"
    /\ probes["driving"] = ProbeBudget
    /\ search.lo <= search.hi

\* C5 as stated: a mode one of whose search probes failed (no route, no data) gets no
\* recommendation, also when an earlier probe of that search was feasible.
C5_FailedProbeMeansInfeasible ==
    \A m \in {"driving", "rideshare"} : m \in failed => ~HasRec(recs, m)

\* C6 as stated: when a query for a requested mode rejects or returns no usable data, the
\* response is still a success and that mode is absent from its recommendations.
C6_FailureScopedToMode ==
    (pc = "done" /\ failed \cup rejected # {}) =>
        /\ response.ok
        /\ \A m \in failed \cup rejected : ~HasRec(response.recommendations, m)

\* C7 as stated: no recommendation of a successful response departs before the instant
\* the request arrived.
C7_NotBeforeNow ==
    (pc = "done" /\ response.ok) =>
        \A k \in 1..Len(response.recommendations) :
            response.recommendations[k].leaveTimeUtc >= Epoch0

\* the request carries no mode list, or an empty one
NoModesRequested ==
    \/ body.modes = None
    \/ body.modes = Some(<<>>) /\ body.modesHasIncludes

InvalidBody ==
    \/ env.request # "object"
    \/ body.flightDateTimeLocal = None
    \/ body.flightType \notin {"domestic", "international"}
    \/ body.modes = None
    \/ ~body.modesHasIncludes
    \/ \E k \in 1..Len(modes) : modes[k] \notin Modes

\* the request names a place the geocoder does not know
UnknownPlace == ~env.originMatches \/ ~env.airportMatches

\* the deployment or a service fails: no key, no time zone, a service call that throws
ServiceFailure ==
    \/ ~env.apiKey
    \/ GeocodeThrown # {}
    \/ env.tzFetch # "json"
    \/ ~env.tzId
    \/ WeatherThrows
    \/ rejected # {}

\* C8 as stated: a request naming no modes ends in a failure, and a failure is raised only
\* for invalid input or for no modes requested (a failing service set aside).
C8_NoModesIsHardError ==
    pc = "done" =>
        /\ NoModesRequested => ~response.ok
        /\ ~response.ok =>
              (InvalidBody \/ UnknownPlace \/ NoModesRequested \/ ServiceFailure)

\* C9 as stated: a request whose flight date/time, flight category or mode list is missing
\* or malformed ends in a failure with no recommendations.
C9_InvalidInputFails ==
    (pc = "done" /\ InvalidBody) => ~response.ok /\ response.recommendations = <<>>

\* C10: the recommendations of a response are in non-increasing order of departure.
C10_Sorted ==
    pc = "done" =>
        \A j, k \in 1..Len(response.recommendations) :
            j < k => response.recommendations[j].leaveTimeUtc
                        >= response.recommendations[k].leaveTimeUtc

\* a response of three recommendations that the sort had to reorder, one mode omitted
C10_Witness ==
    /\ pc = "done"
    /\ response.ok
    /\ Len(response.recommendations) = 3
    /\ failed # {}
    /\ response.recommendations[3].mode = "driving"
    /\ response.recommendations[1].leaveTimeUtc > response.recommendations[2].leaveTimeUtc
    /\ response.recommendations[2].leaveTimeUtc > response.recommendations[3].leaveTimeUtc


\* POST has computed the buffers: nothing before line 178 threw
Prepared ==
    /\ pc \in Modes \cup {"done"}
    /\ env.apiKey /\ env.request = "object" /\ GeocodeThrown = {} /\ ~UnknownPlace
    /\ env.tzFetch = "json" /\ env.tzId
    /\ body.flightDateTimeLocal # None
    /\ ~WeatherThrows

\* the sum of the addends the buffer policy names, before the floor
ProceduralSum ==
    (IF body.flightType = "international" THEN 180 + 60 ELSE 120 + 45)
    - (IF body.hasTsaPreCheck THEN 20 ELSE 0)
    + (IF body.hasCheckedBags THEN 20 ELSE 0)
    + (IF body.extraBufferMin = None THEN 0 ELSE body.extraBufferMin[1])

\* C11: the procedural buffer is max(base + security - precheck discount + bag addend +
\* extra, 30): never below 30 minutes, 145 for domestic + precheck + no bags + no extra,
\* 270 for international + bags + extra 10.
C11_ProceduralBuffer ==
    Prepared =>
        /\ flight.airportBufferMin >= 30
        /\ flight.airportBufferMin = (IF ProceduralSum >= 30 THEN ProceduralSum ELSE 30)
        /\ (body.flightType = "domestic" /\ body.hasTsaPreCheck /\ ~body.hasCheckedBags
               /\ body.extraBufferMin = None) => flight.airportBufferMin = 145
        /\ (body.flightType = "international" /\ ~body.hasTsaPreCheck /\ body.hasCheckedBags
               /\ body.extraBufferMin = Some(10)) => flight.airportBufferMin = 270

\* a large negative extra floored at 30 minutes
C11_Witness ==
    /\ Prepared
    /\ body.flightType = "international"
    /\ body.hasCheckedBags
    /\ body.extraBufferMin = Some(-400)
    /\ flight.airportBufferMin = 30


\* the access minutes the buffer policy gives mode m for this request
ConfiguredAccess(m) ==
    LET pickup == IF body.rideSharePickupBufferMin = None THEN 8
                  ELSE body.rideSharePickupBufferMin[1]
        parking == IF body.parkingBufferMin = None THEN 12 ELSE body.parkingBufferMin[1]
    IN  IF m = "rideshare" THEN (IF pickup >= 0 THEN pickup ELSE 0)
        ELSE IF m = "driving" THEN (IF parking >= 0 THEN parking ELSE 0)
        ELSE 0

\* the access minutes inside a recommendation's buffersAppliedMin
AccessApplied(r) ==
    r.buffersAppliedMin - flight.airportBufferMin - flight.weather.addedBufferMin

\* C12: the access buffer of a search and of every recommendation is the configured pickup
\* minutes (default 8) for rideshare and the configured parking minutes (default 12) for
\* driving, each clamped to at least 0, and 0 for transit, walking and bicycling.
C12_AccessBuffer ==
    /\ search.phase # "idle" => search.buf = ConfiguredAccess(pc) /\ search.buf >= 0
    /\ \A k \in 1..Len(recs) :
          /\ AccessApplied(recs[k]) = ConfiguredAccess(recs[k].mode)
          /\ AccessApplied(recs[k]) >= 0
          /\ recs[k].mode \in {"driving", "rideshare"} =>
                recs[k].notes[1].min = ConfiguredAccess(recs[k].mode)

\* a negative pickup clamped to 0 beside a configured parking of 20, and a walking
\* recommendation without access minutes
C12_Witness ==
    /\ pc = "done"
    /\ body.rideSharePickupBufferMin = Some(-5)
    /\ body.parkingBufferMin = Some(20)
    /\ Len(response.recommendations) = 3
    /\ \A k \in 1..3 :
          AccessApplied(response.recommendations[k]) =
              (IF response.recommendations[k].mode = "driving" THEN 20 ELSE 0)


\* the weather sample of the flight's hour, when the fetch answered with one
HasSample == env.weather.ok /\ env.weather.sample # None

\* the precipitation-likely flag: probability at least 60 % or at least 1 mm
PrecipitationLikely ==
    LET s == env.weather.sample[1]
    IN  \/ s.precipitation_probability # None /\ s.precipitation_probability[1] >= 60
        \/ s.precipitation # None /\ s.precipitation[1] >= 1

\* the high-wind flag: gusts of at least 40
HighWind ==
    LET s == env.weather.sample[1]
    IN  s.windgusts_10m # None /\ s.windgusts_10m[1] >= 40

Flag(b) == IF b THEN 1 ELSE 0

\* 10 minutes and one reason string per raised flag
FlagsToMinutes ==
    HasSample =>
        /\ flight.weather.addedBufferMin = 10 * Flag(PrecipitationLikely) + 10 * Flag(HighWind)
        /\ Len(flight.weather.reason) = Flag(PrecipitationLikely) + Flag(HighWind)
        /\ PrecipitationLikely => flight.weather.reason[1] = "precipitation expected"
        /\ HighWind => flight.weather.reason[Len(flight.weather.reason)] = "high wind gusts"

\* C13 as stated: 10 minutes and one reason per raised flag, and 0 minutes with no reason
\* whenever the fetch failed or the hour has no sample.
C13_NoDataNoReason ==
    Prepared =>
        /\ FlagsToMinutes
        /\ ~HasSample => flight.weather.addedBufferMin = 0 /\ flight.weather.reason = <<>>

\* C13 amended: 10 minutes and one reason per raised flag, additive (0, 10 or 20); 0
\* minutes with no reason when the forecast has no sample for the hour; 0 minutes with
\* the single reason "weather fetch failed" when the fetch answers with a status that is
\* not ok.  A weather fetch that rejects, or whose ok answer is not JSON, yields no buffer
\* at all: the request fails.
C13_FetchFailedIsAReason ==
    /\ (pc = "done" /\ WeatherThrows) => ~response.ok
    /\ Prepared =>
        /\ FlagsToMinutes
        /\ flight.weather.addedBufferMin \in {0, 10, 20}
        /\ (env.weather.ok /\ env.weather.sample = None) =>
              flight.weather.addedBufferMin = 0 /\ flight.weather.reason = <<>>
        /\ ~env.weather.ok =>
              /\ flight.weather.addedBufferMin = 0
              /\ flight.weather.reason = <<"weather fetch failed">>

\* both flags raised: 20 minutes, two reasons, in the response
C13_Witness ==
    /\ pc = "done"
    /\ response.ok
    /\ HasSample /\ PrecipitationLikely /\ HighWind
    /\ response.weatherBufferMin = 20
    /\ Len(response.weatherReasons) = 2


ConstantSpeed == {"walking", "bicycling"}

\* C14: a walking or bicycling recommendation departs exactly at flight instant - (procedural
\* + weather buffer) * 60 - D, D the duration its one query returned; the mode gets one
\* query at most, and no recommendation when that query failed.
C14_ExactDeparture ==
    /\ \A m \in ConstantSpeed :
          /\ probes[m] <= 1
          /\ m \in failed \cup rejected => ~HasRec(recs, m)
          /\ HasRec(recs, m) => probes[m] = 1 /\ durSec[m] # None
    /\ \A k \in 1..Len(recs) :
          recs[k].mode \in ConstantSpeed =>
              /\ recs[k].buffersAppliedMin =
                     flight.airportBufferMin + flight.weather.addedBufferMin
              /\ recs[k].leaveTimeUtc =
                     flight.flightUtc - recs[k].buffersAppliedMin * 60 - durSec[recs[k].mode][1]

\* a walking recommendation for a duration that is not a whole number of minutes, under a
\* weather buffer
C14_Witness ==
    /\ pc = "done"
    /\ response.ok
    /\ flight.weather.addedBufferMin > 0
    /\ HasRec(response.recommendations, "walking")
    /\ durSec["walking"] = Some(1530)


\* a step of the loop that issued a probe and got a duration
ProbeStep ==
    /\ search.phase = "loop"
    /\ search'.phase = "loop"
    /\ search'.i = search.i + 1

\* the step that leaves the loop and pushes (or not) the recommendation of mode pc
EmitStep ==
    /\ search.phase # "idle"
    /\ search'.phase = "idle"
    /\ pc' # pc
    /\ pc' # "done"

\* C15: while a search runs, the kept result is the latest feasible probe visited so far with
\* the duration the oracle answered for that probe; a probe never lowers the lower bound nor
\* raises the upper bound, a feasible probe is strictly later than the one kept before it,
\* and the recommendation pushed at the end carries that latest feasible probe.
C15_LatestFeasibleKept ==
    [][ /\ search'.phase # "idle" => search'.best = latestVisited'
        /\ ProbeStep =>
              /\ search'.lo >= search.lo
              /\ search'.hi <= search.hi
              /\ search'.best # search.best =>
                    /\ search'.best = Some([leave |-> Mid(search),
                                            dur |-> search'.best[1].dur])
                    /\ FeasibleProbe(search, search'.best[1].dur, flight.latestArrivalSec)
                    /\ search.best # None => search'.best[1].leave > search.best[1].leave
        /\ EmitStep =>
              IF latestVisited = None THEN recs' = recs
              ELSE /\ Len(recs') = Len(recs) + 1
                   /\ recs'[Len(recs')].mode = pc
                   /\ recs'[Len(recs')].leaveTimeUtc = latestVisited[1].leave
                   /\ durSec'[pc] = Some(latestVisited[1].dur)
      ]_vars

\* the budget is spent, the first probe was feasible and a later feasible probe replaced it
\* with another duration, and some probe was infeasible
C15_Witness ==
    /\ search.phase = "loop"
    /\ search.i = ProbeBudget
    /\ env.oracle.kind = "any"
    /\ search.best # None
    /\ search.best = latestVisited
    /\ 2 * search.best[1].leave >
           2 * search.nowSec + (flight.latestArrivalSec - search.buf * 60 - search.nowSec)
    /\ search.best[1].dur = 1530
    /\ search.hi < flight.latestArrivalSec - search.buf * 60

====
